---- MODULE Spec2Model ----
(***************************************************************************)
(* VitalViz: the sampling loop of the GUI front-ends                        *)
(* (src/vitalviz_gui.py and src/system_dashboard_gui.py), its network rate  *)
(* arithmetic, the bounded history lists and the notification thresholds.   *)
(*                                                                          *)
(* The program has two threads: the update thread runs update_data, the UI  *)
(* thread runs the callbacks and the handlers of the menus and the window.  *)
(* Neither takes a lock, so every statement of update_data, reset_graphs,   *)
(* save_settings and on_closing and every line of the row loop of           *)
(* export_to_csv is one step, and the steps of the two threads interleave.  *)
(* system_dashboard.py has one thread; an iteration of its loop is one      *)
(* step.                                                                    *)
(*                                                                          *)
(* A float is modelled by the reduced fraction [num, den], den > 0, whose    *)
(* nearest double it is; the float -0.0 is [num |-> 0, den |-> -1].  The    *)
(* operands of the program's divisions are whole numbers, so the quotient   *)
(* Python computes is the double nearest to the exact one.  A division by   *)
(* zero is the ZeroDivisionError the interpreter raises.  Wall-clock        *)
(* readings are whole seconds.                                              *)
(***************************************************************************)
EXTENDS Integers, Sequences, FiniteSets, TLC

(***************************************************************************)
(* Bounds of the model.                                                     *)
(***************************************************************************)
\* update_data keeps MAX_HISTORY = 60 points (vitalviz_gui.py:571); the model
\* keeps the eviction rule and scales the number of points down.
MAX_HISTORY == 2
\* largest wall-clock reading (seconds)
MaxTime == 2
\* largest value of a cumulative network counter
MaxCounter == 2
\* iterations of the sampling loop explored by each specification
MaxTicks == 4
MaxTicksRate == 3
MaxTicksCapacity == 3
MaxTicksAlert == 3
MaxTicksHyst == 4
MaxTicksFail == 3
MaxTicksInterval == 3
MaxTicksRace == 3
MaxTicksUi == 3
MaxTicksScenario == 3
MaxTicksGate == 3
MaxTicksConsumers == 3
MaxTicksPrev == 3
MaxTicksReset == 3
MaxTicksClose == 3

(***************************************************************************)
(* Program constants.                                                       *)
(***************************************************************************)
CPU_ENTER == 90
CPU_CLEAR == 70
MEM_ENTER == 85
MEM_CLEAR == 75
DEFAULT_MAX_HISTORY == 60
DEFAULT_UPDATE_INTERVAL == 1
\* number of cores reported by get_cpu_usage_per_core()
NumCores == 2

(***************************************************************************)
(* Exact arithmetic of Python's `/`.                                        *)
(***************************************************************************)
Abs(n) == IF n < 0 THEN -n ELSE n

RECURSIVE GCD(_, _)
GCD(a, b) == IF b = 0 THEN a ELSE GCD(b, a % b)

\* a / b for b # 0, as the reduced fraction with a positive denominator;
\* 0 / b is -0.0 when b is negative
TrueDiv(a, b) ==
    LET g == GCD(Abs(a), Abs(b))
        s == IF b < 0 THEN -1 ELSE 1
    IN  IF a = 0 THEN [num |-> 0, den |-> s]
        ELSE [num |-> (s * a) \div g, den |-> (s * b) \div g]

Zero == [num |-> 0, den |-> 1]
NegZero == [num |-> 0, den |-> -1]

\* comparisons of a fraction with an integer (-0.0 compares as 0)
FracGT(f, n) == f.num > n * Abs(f.den)
FracLT(f, n) == f.num < n * Abs(f.den)

\* the number of binary digits of the positive integer n
RECURSIVE BitLen(_)
BitLen(n) == IF n = 0 THEN 0 ELSE 1 + BitLen(n \div 2)

\* The binary digits of r / b (0 <= r < b) after the first `need` significant
\* ones: whether rounding to `need` digits, a tie going to the even digit,
\* gives less (-1), the same (0) or more (1).  low is the last digit kept.
RECURSIVE BinaryTail(_, _, _, _, _)
BinaryTail(r, b, need, started, low) ==
    IF r = 0 THEN 0
    ELSE IF need = 0
         THEN IF 2 * r > b THEN 1
              ELSE IF 2 * r < b THEN -1
              ELSE IF low = 1 THEN 1 ELSE -1
    ELSE LET bit == (2 * r) \div b
             rest == (2 * r) % b
         IN  IF started \/ bit = 1
             THEN BinaryTail(rest, b, need - 1, TRUE, bit)
             ELSE BinaryTail(rest, b, need, FALSE, 0)

\* the double nearest to a / b (a >= 0, b > 0; 53 significant binary
\* digits) is below a / b (-1), equal to it (0) or above it (1)
FloatSide(a, b) ==
    IF a \div b = 0 THEN BinaryTail(a % b, b, 53, FALSE, 0)
    ELSE BinaryTail(a % b, b, 53 - BitLen(a \div b), TRUE, (a \div b) % 2)

RECURSIVE SumSeq(_)
SumSeq(s) == IF s = <<>> THEN 0 ELSE Head(s) + SumSeq(Tail(s))

(***************************************************************************)
(* State.                                                                   *)
(***************************************************************************)
VARIABLES
    frontend,                 \* "vitalviz" (vitalviz_gui.py), "basic" (system_dashboard_gui.py)
                              \* or "cli" (system_dashboard.py)
    NOTIFICATIONS_AVAILABLE,  \* whether `from plyer import notification` succeeded
    running,                  \* self.running
    destroyed,                \* self.root.destroy() was executed
    alive,                    \* the update thread has not ended with an uncaught exception
    update_interval,          \* self.update_interval
    max_history,              \* self.max_history
    enable_notifications,     \* self.enable_notifications
    cpu_history,              \* self.cpu_history: one list per core
    memory_history,           \* self.memory_history
    network_recv_history,     \* self.network_recv_history
    network_sent_history,     \* self.network_sent_history
    time_points,              \* self.time_points
    prev_net_io,              \* self.prev_net_io
    prev_time,                \* self.prev_time
    cpu_notified,             \* hasattr(self, 'cpu_notified')
    memory_notified,          \* hasattr(self, 'memory_notified')
    rate_labels,              \* the rates shown by bytes_sent_rate_label / bytes_recv_rate_label
    nticks,                   \* iterations of the loop started so far
    last,                     \* what the latest iteration read, computed and did
    log,                      \* the iterations that pushed, since construction or the last reset
    after_queue,              \* callbacks scheduled with root.after(0, ...), oldest first
    pc,                       \* the statement of update_data the update thread is at
    loc,                      \* the locals of update_data
    rpc,                      \* the statements of reset_graphs the UI thread has executed
    dialog,                   \* the statements of save_settings executed, and the entries saved
    exp,                      \* the statement of export_to_csv the UI thread is at, and its rows
    cb,                       \* the statement of the callback (or of toggle_theme) the UI
                              \* thread is at, and what the latest one plotted
    js,                       \* the list export_to_json is writing, and the file
    overlap                   \* statements of reset_graphs executed since the iteration began

vars == <<frontend, NOTIFICATIONS_AVAILABLE, running, destroyed, alive,
          update_interval, max_history, enable_notifications, cpu_history,
          memory_history, network_recv_history, network_sent_history, time_points,
          prev_net_io, prev_time, cpu_notified, memory_notified, rate_labels,
          nticks, last, log, after_queue, pc, loc, rpc, dialog, exp, cb, js,
          overlap>>

\* the constants of a run and the window
fixed == <<frontend, NOTIFICATIONS_AVAILABLE>>
window == <<running, destroyed>>
\* the position of the update thread inside update_data
worker == <<pc, loc>>
\* the position of the UI thread inside its handlers, and what it read
ui == <<rpc, dialog, exp, cb, js>>
settings == <<update_interval, max_history, enable_notifications>>
series == <<cpu_history, memory_history, network_recv_history,
            network_sent_history, time_points>>
alerts == <<cpu_notified, memory_notified>>

Cores == 1..NumCores
TimeVals == 0..MaxTime
CounterVals == 0..MaxCounter
NetIO(S, R) == [bytes_sent : S, bytes_recv : R]
GUI == {"vitalviz", "basic"}

\* datetime.now().strftime("%H:%M:%S") of a wall-clock reading in seconds:
\* hours, minutes and seconds of the day; the date is dropped
HMS(now) == <<(now \div 3600) % 24, (now \div 60) % 60, now % 60>>

\* f"{x:.2f}" of the float x: the sign and the number of hundredths nearest
\* to the double.  The double of a fraction that lies halfway between two
\* hundredths is itself halfway only when it is that fraction, and then the
\* even hundredth is taken; otherwise the side the double lies on decides.
\* A negative value that rounds to zero keeps its sign: "-0.00".
Fmt2(x) ==
    LET a == Abs(x.num)
        b == Abs(x.den)
        q == (100 * a) \div b
        r == (100 * a) % b
        up == IF 2 * r # b THEN 2 * r > b
              ELSE \/ FloatSide(a, b) = 1
                   \/ FloatSide(a, b) = 0 /\ q % 2 = 1
    IN  [neg |-> x.num < 0 \/ x.den < 0, n |-> IF up THEN q + 1 ELSE q]
\* an int or float reading as a fraction
Frac(n) == [num |-> n, den |-> 1]

\* size_formatter (system_dashboard.py:59-65): the value in the first unit
\* in which it is below 1024, with two decimals.  The division by 1024.0 is
\* exact in binary, so the double of the quotient is the quotient of the
\* double.
RECURSIVE SizeIn(_, _)
SizeIn(x, units) ==
    IF units = <<>> THEN [value |-> Fmt2(x), unit |-> "PB"]
    ELSE IF FracLT(x, 1024) THEN [value |-> Fmt2(x), unit |-> Head(units)]
    ELSE SizeIn(TrueDiv(x.num, x.den * 1024), Tail(units))
size_formatter(x) == SizeIn(x, <<"B", "KB", "MB", "GB", "TB">>)

\* the text of a rate label or of a rate cell, f"{size_formatter(rate)}/s":
\* the formatted size, always written with two decimals
RateText(x) ==
    [value |-> size_formatter(x).value, unit |-> size_formatter(x).unit,
     places |-> 2]
\* the text the rate labels are created with, "0 B/s", which has no decimals
\* (vitalviz_gui.py:394, 398; system_dashboard_gui.py:238, 242)
InitialRateText == [value |-> [neg |-> FALSE, n |-> 0], unit |-> "B", places |-> 0]

\* the record of an iteration that has not happened
NoTick ==
    [n |-> 0, failed_at |-> "never", current_time |-> 0, time_diff |-> 0,
     prev_net_io |-> [bytes_sent |-> 0, bytes_recv |-> 0],
     net_io |-> [bytes_sent |-> 0, bytes_recv |-> 0],
     cpu_usage |-> [i \in Cores |-> 0], mem_percent |-> 0,
     sent_rate |-> Zero, recv_rate |-> Zero,
     pushed |-> FALSE, net_pushed |-> FALSE, dispatched |-> 0,
     checked |-> FALSE, notified |-> {},
     pre_cpu_notified |-> FALSE, pre_memory_notified |-> FALSE,
     post_cpu_notified |-> FALSE, post_memory_notified |-> FALSE,
     prev_updated |-> FALSE, capacity |-> 0,
     pre_rates |-> [sent |-> Zero, recv |-> Zero],
     interval |-> 0]

\* the locals of an iteration that has not read anything: k is the list
\* being pushed to, a the root.after call to make next
NoLocals ==
    [current_time |-> 0, now |-> 0, time_diff |-> 0,
     cpu_usage |-> [i \in Cores |-> 0], mem_percent |-> 0,
     net_io |-> [bytes_sent |-> 0, bytes_recv |-> 0],
     sent_rate |-> Zero, recv_rate |-> Zero,
     k |-> 0, a |-> 0, dirty |-> FALSE]

\* no callback has run.  callback is the function the UI thread is in or
\* was in last, n the iteration that scheduled it, via what called it
\* ("after" or "toggle_theme"), pc its next statement, c the core being
\* plotted, x the length read for the x axis, sent and recv the rates it was
\* passed; lines are the plot calls made so far, each with the length of its
\* x and the list it was given as y; dirty tells that a list was read while
\* a push was in progress, raised that a plot call raised.
NoCallback ==
    [callback |-> "none", n |-> 0, via |-> "none", pc |-> "idle", c |-> 0,
     x |-> 0, sent |-> Zero, recv |-> Zero, lines |-> <<>>, dirty |-> FALSE,
     raised |-> FALSE]

\* the lists export_to_json writes, in the order of the file: the time
\* points, each core, the memory, the sent and the received rates
NumLists == NumCores + 4
\* no JSON export has run: k is the list being written, i the index of its
\* next element, file the elements written of each list
NoJson == [pc |-> "idle", k |-> 0, i |-> 0, file |-> [k \in 1..NumLists |-> <<>>],
           dirty |-> FALSE]

\* the settings dialog is not being saved
NoDialog == [k |-> 0, interval |-> 0, history |-> 0, notifications |-> FALSE]

\* a row of the CSV file that has no field yet, and no export in progress:
\* i is the index of the row being built, n the number of rows, c the core
\* the generator expression of line 1061 is at and sum what it has added up
NoField == [neg |-> FALSE, n |-> 0]
NoRow == [timestamp |-> <<>>, avg_cpu |-> NoField, memory |-> NoField,
          net_send |-> NoField, net_recv |-> NoField, dirty |-> FALSE]
NoExport == [pc |-> "idle", i |-> 0, n |-> 0, c |-> 0, sum |-> 0, row |-> NoRow,
             rows |-> <<>>, failed |-> FALSE]

(***************************************************************************)
(* __init__: the state after construction.  The previous counters and the   *)
(* previous timestamp are read once, before the loop starts.                *)
(***************************************************************************)
InitWith(Fronts, Avail, Nets, Times) ==
    /\ frontend \in Fronts
    /\ NOTIFICATIONS_AVAILABLE \in Avail
    /\ running = TRUE
    /\ destroyed = FALSE
    /\ alive = TRUE
    /\ update_interval = DEFAULT_UPDATE_INTERVAL
    /\ max_history = DEFAULT_MAX_HISTORY
    /\ enable_notifications = TRUE
    /\ cpu_history = [i \in Cores |-> <<>>]
    /\ memory_history = <<>>
    /\ network_recv_history = <<>>
    /\ network_sent_history = <<>>
    /\ time_points = <<>>
    /\ prev_net_io \in Nets
    /\ prev_time \in Times
    /\ cpu_notified = FALSE
    /\ memory_notified = FALSE
    /\ rate_labels = [sent |-> InitialRateText, recv |-> InitialRateText]
    /\ nticks = 0
    /\ last = NoTick
    /\ log = <<>>
    /\ after_queue = <<>>
    /\ pc = "while"
    /\ loc = NoLocals
    /\ rpc = 0
    /\ dialog = NoDialog
    /\ exp = NoExport
    /\ cb = NoCallback
    /\ js = NoJson
    /\ overlap = 0

(***************************************************************************)
(* The network rate: (current - previous) / time_diff.                      *)
(***************************************************************************)
\* faulty variants: the operands swapped; the computation skipped
RateSwapped(curr, prev, time_diff) == TrueDiv(prev - curr, time_diff)
RateSkipped(curr, prev, time_diff) == Zero
Rate(curr, prev, time_diff) == TrueDiv(curr - prev, time_diff)

(***************************************************************************)
(* check_thresholds.  notify() calls the notification sink, which may       *)
(* raise; the exception leaves check_thresholds before the flag is set.     *)
(***************************************************************************)
\* a notification delivered by notify(): the quantity and what it announces
Raised(q) == [q |-> q, kind |-> "raised"]

avg_cpu(cpu_usage) == TrueDiv(SumSeq(cpu_usage), Len(cpu_usage))

\* faulty variant: the thresholds compared with >= and <=
CpuBranchInclusive(flag, cpu_usage, sink_ok) ==
    IF ~FracLT(avg_cpu(cpu_usage), CPU_ENTER) /\ ~flag
    THEN [flag |-> sink_ok, notified |-> sink_ok, raised |-> ~sink_ok]
    ELSE IF ~FracGT(avg_cpu(cpu_usage), CPU_CLEAR) /\ flag
         THEN [flag |-> FALSE, notified |-> FALSE, raised |-> FALSE]
         ELSE [flag |-> flag, notified |-> FALSE, raised |-> FALSE]
\* one quantity: the flag afterwards, whether notify() delivered, whether it raised
CpuBranch(flag, cpu_usage, sink_ok) ==
    IF FracGT(avg_cpu(cpu_usage), CPU_ENTER) /\ ~flag
    THEN [flag |-> sink_ok, notified |-> sink_ok, raised |-> ~sink_ok]
    ELSE IF FracLT(avg_cpu(cpu_usage), CPU_CLEAR) /\ flag
         THEN [flag |-> FALSE, notified |-> FALSE, raised |-> FALSE]
         ELSE [flag |-> flag, notified |-> FALSE, raised |-> FALSE]

MemBranch(flag, mem_percent, sink_ok) ==
    IF mem_percent > MEM_ENTER /\ ~flag
    THEN [flag |-> sink_ok, notified |-> sink_ok, raised |-> ~sink_ok]
    ELSE IF mem_percent < MEM_CLEAR /\ flag
         THEN [flag |-> FALSE, notified |-> FALSE, raised |-> FALSE]
         ELSE [flag |-> flag, notified |-> FALSE, raised |-> FALSE]

check_thresholds(cn, mn, cpu_usage, mem_percent, sink_ok) ==
    LET c == CpuBranch(cn, cpu_usage, sink_ok)
        m == IF c.raised
             THEN [flag |-> mn, notified |-> FALSE, raised |-> TRUE]
             ELSE MemBranch(mn, mem_percent, sink_ok)
    IN  [cpu_notified |-> c.flag, memory_notified |-> m.flag,
         notified |-> (IF c.notified THEN {Raised("cpu")} ELSE {})
                      \cup (IF m.notified THEN {Raised("memory")} ELSE {}),
         raised |-> m.raised]


(***************************************************************************)
(* update_data, statement by statement.  pc names the statement the update  *)
(* thread executes next; each statement is one step, so that the handlers   *)
(* of the UI thread run between any two of them.  The three pushes of       *)
(* lines 585-599 (time points, each core, memory) share their statements:   *)
(* loc.k is the list being pushed to.  The first statement that raises ends *)
(* the iteration: last.failed_at names it.  vitalviz_gui.py catches the     *)
(* exception, prints it and sleeps; system_dashboard_gui.py has no try, so  *)
(* the exception ends the thread.                                           *)
(***************************************************************************)
\* the window exists and the main loop is waiting for an event: the UI
\* thread is in no handler
UiIdle ==
    /\ frontend \in GUI
    /\ running
    /\ ~destroyed
    /\ rpc = 0
    /\ dialog.k = 0
    /\ exp.pc = "idle"
    /\ cb.pc = "idle"
    /\ js.pc = "idle"

\* the callbacks update_data schedules on every iteration, in this order;
\* system_dashboard_gui.py has no dashboard tab
Callbacks ==
    IF frontend = "vitalviz"
    THEN <<"update_ui_cpu", "update_ui_memory", "update_ui_disk",
           "update_ui_network", "update_ui_system_info", "update_dashboard">>
    ELSE <<"update_ui_cpu", "update_ui_memory", "update_ui_disk",
           "update_ui_network", "update_ui_system_info">>
AllScheduled == Len(Callbacks)
\* the callbacks that are passed the two rates
RateConsumers == {"update_ui_network", "update_dashboard"}
\* what root.after(0, callback, *args) queues for iteration n: the callback
\* and, of its arguments, the two rates
Scheduled(callback, n) ==
    [callback |-> callback, n |-> n,
     sent |-> IF callback \in RateConsumers THEN loc.sent_rate ELSE Zero,
     recv |-> IF callback \in RateConsumers THEN loc.recv_rate ELSE Zero]

Target(k) == IF k = 1 THEN time_points
             ELSE IF k <= NumCores + 1 THEN cpu_history[k - 1]
             ELSE memory_history
\* the value appended to list k; now is the reading of datetime.now()
Value(k, now) == IF k = 1 THEN HMS(now)
                 ELSE IF k <= NumCores + 1 THEN loc.cpu_usage[k - 1]
                 ELSE loc.mem_percent
SetTarget(k, h) ==
    /\ time_points' = IF k = 1 THEN h ELSE time_points
    /\ cpu_history' = IF k > 1 /\ k <= NumCores + 1
                      THEN [cpu_history EXCEPT ![k - 1] = h]
                      ELSE cpu_history
    /\ memory_history' = IF k = NumCores + 2 THEN h ELSE memory_history

\* the iteration whose record is l has ended: it is logged when it pushed
\* its CPU and memory readings
Logged(l) ==
    IF l.pushed
    THEN Append(log, [time |-> loc.current_time, now |-> loc.now,
                      cpu_usage |-> loc.cpu_usage,
                      mem_percent |-> loc.mem_percent,
                      net_io |-> loc.net_io, net_pushed |-> l.net_pushed,
                      sent_rate |-> l.sent_rate, recv_rate |-> l.recv_rate,
                      notified |-> l.notified])
    ELSE log

\* the statement raised: `except Exception` or the end of the thread
Raise(stage) ==
    /\ pc' = IF frontend = "vitalviz" THEN "sleep" ELSE "done"
    /\ alive' = (frontend = "vitalviz")
    /\ last' = [last EXCEPT !.failed_at = stage]
    /\ loc' = [loc EXCEPT !.dirty = FALSE]
    /\ log' = Logged(last)

\* while self.running:
w_while ==
    /\ frontend \in GUI
    /\ pc = "while"
    /\ alive
    /\ IF running
       THEN /\ pc' = "read"
            /\ nticks' = nticks + 1
            /\ overlap' = 0
            /\ last' = [NoTick EXCEPT !.n = nticks + 1, !.failed_at = "running",
                                      !.capacity = max_history,
                                      !.pre_cpu_notified = cpu_notified,
                                      !.pre_memory_notified = memory_notified,
                                      !.post_cpu_notified = cpu_notified,
                                      !.post_memory_notified = memory_notified,
                                      !.pre_rates = [sent |-> loc.sent_rate,
                                                     recv |-> loc.recv_rate]]
       ELSE /\ pc' = "done"
            /\ UNCHANGED <<nticks, overlap, last>>
    /\ UNCHANGED <<fixed, window, alive, settings, series, prev_net_io,
                   prev_time, alerts, rate_labels, log, after_queue, loc, ui>>

\* lines 576-583: the clock and the four providers.  The statements read
\* nothing the UI thread writes (prev_time is written by update_data only),
\* so they are one step.
w_read(current_time, cpu_usage, mem_percent, net_io, disk_ok) ==
    /\ pc = "read"
    /\ IF disk_ok
       THEN /\ pc' = "len"
            /\ loc' = [NoLocals EXCEPT !.current_time = current_time,
                                       !.time_diff = current_time - prev_time,
                                       !.cpu_usage = cpu_usage,
                                       !.mem_percent = mem_percent,
                                       !.net_io = net_io,
                                       !.k = 1]
            /\ last' = [last EXCEPT !.current_time = current_time,
                                    !.time_diff = current_time - prev_time,
                                    !.prev_net_io = prev_net_io,
                                    !.net_io = net_io,
                                    !.cpu_usage = cpu_usage,
                                    !.mem_percent = mem_percent]
            /\ UNCHANGED <<alive, log>>
       ELSE Raise("provider")
    /\ UNCHANGED <<fixed, window, settings, series, prev_net_io, prev_time,
                   alerts, rate_labels, nticks, after_queue, ui, overlap>>

\* if len(h) >= MAX_HISTORY:
w_len ==
    /\ pc = "len"
    /\ pc' = IF Len(Target(loc.k)) >= MAX_HISTORY THEN "pop" ELSE "append"
    /\ UNCHANGED <<fixed, window, alive, settings, series, prev_net_io,
                   prev_time, alerts, rate_labels, nticks, last, log,
                   after_queue, loc, ui, overlap>>

\* faulty variant: the newest point is evicted instead of the oldest
w_pop_newest ==
    /\ pc = "pop"
    /\ Target(loc.k) # <<>>
    /\ SetTarget(loc.k, SubSeq(Target(loc.k), 1, Len(Target(loc.k)) - 1))
    /\ pc' = "append"
    /\ loc' = [loc EXCEPT !.dirty = TRUE]
    /\ UNCHANGED <<fixed, window, alive, settings, network_recv_history,
                   network_sent_history, prev_net_io, prev_time, alerts,
                   rate_labels, nticks, last, log, after_queue, ui, overlap>>
\* h.pop(0)
w_pop ==
    /\ pc = "pop"
    /\ IF Target(loc.k) = <<>>
       THEN /\ Raise("pop")
            /\ UNCHANGED <<time_points, cpu_history, memory_history>>
       ELSE /\ SetTarget(loc.k, Tail(Target(loc.k)))
            /\ pc' = "append"
            /\ loc' = [loc EXCEPT !.dirty = TRUE]
            /\ UNCHANGED <<alive, last, log>>
    /\ UNCHANGED <<fixed, window, settings, network_recv_history,
                   network_sent_history, prev_net_io, prev_time, alerts,
                   rate_labels, nticks, after_queue, ui, overlap>>

\* h.append(v); for the time points v is datetime.now() as HH:MM:SS, a
\* second reading of the clock
w_append(now) ==
    /\ pc = "append"
    /\ SetTarget(loc.k, Append(Target(loc.k), Value(loc.k, now)))
    /\ pc' = IF loc.k = NumCores + 2 THEN "rates" ELSE "len"
    /\ loc' = [loc EXCEPT !.k = loc.k + 1, !.dirty = TRUE,
                          !.now = IF loc.k = 1 THEN now ELSE loc.now]
    /\ last' = [last EXCEPT !.pushed = (loc.k = NumCores + 2)]
    /\ UNCHANGED <<fixed, window, alive, settings, network_recv_history,
                   network_sent_history, prev_net_io, prev_time, alerts,
                   rate_labels, nticks, log, after_queue, ui, overlap>>

\* lines 602-603: the two rates
w_rates ==
    /\ pc = "rates"
    /\ IF loc.time_diff = 0
       THEN Raise("division")
       ELSE /\ pc' = "net_len"
            /\ loc' = [loc EXCEPT
                   !.sent_rate = Rate(loc.net_io.bytes_sent, prev_net_io.bytes_sent,
                                      loc.time_diff),
                   !.recv_rate = Rate(loc.net_io.bytes_recv, prev_net_io.bytes_recv,
                                      loc.time_diff)]
            /\ last' = [last EXCEPT
                   !.sent_rate = Rate(loc.net_io.bytes_sent, prev_net_io.bytes_sent,
                                      loc.time_diff),
                   !.recv_rate = Rate(loc.net_io.bytes_recv, prev_net_io.bytes_recv,
                                      loc.time_diff)]
            /\ UNCHANGED <<alive, log>>
    /\ UNCHANGED <<fixed, window, settings, series, prev_net_io, prev_time,
                   alerts, rate_labels, nticks, after_queue, ui, overlap>>

\* if len(self.network_sent_history) >= MAX_HISTORY:
w_net_len ==
    /\ pc = "net_len"
    /\ pc' = IF Len(network_sent_history) >= MAX_HISTORY THEN "net_pop_sent"
             ELSE "net_append_sent"
    /\ UNCHANGED <<fixed, window, alive, settings, series, prev_net_io,
                   prev_time, alerts, rate_labels, nticks, last, log,
                   after_queue, loc, ui, overlap>>

\* self.network_sent_history.pop(0)
w_net_pop_sent ==
    /\ pc = "net_pop_sent"
    /\ IF network_sent_history = <<>>
       THEN Raise("pop") /\ UNCHANGED network_sent_history
       ELSE /\ network_sent_history' = Tail(network_sent_history)
            /\ pc' = "net_pop_recv"
            /\ loc' = [loc EXCEPT !.dirty = TRUE]
            /\ UNCHANGED <<alive, last, log>>
    /\ UNCHANGED <<fixed, window, settings, cpu_history, memory_history,
                   network_recv_history, time_points, prev_net_io, prev_time,
                   alerts, rate_labels, nticks, after_queue, ui, overlap>>

\* self.network_recv_history.pop(0)
w_net_pop_recv ==
    /\ pc = "net_pop_recv"
    /\ IF network_recv_history = <<>>
       THEN Raise("pop") /\ UNCHANGED network_recv_history
       ELSE /\ network_recv_history' = Tail(network_recv_history)
            /\ pc' = "net_append_sent"
            /\ UNCHANGED <<alive, last, loc, log>>
    /\ UNCHANGED <<fixed, window, settings, cpu_history, memory_history,
                   network_sent_history, time_points, prev_net_io, prev_time,
                   alerts, rate_labels, nticks, after_queue, ui, overlap>>

\* self.network_sent_history.append(bytes_sent_per_sec)
w_net_append_sent ==
    /\ pc = "net_append_sent"
    /\ network_sent_history' = Append(network_sent_history, loc.sent_rate)
    /\ pc' = "net_append_recv"
    /\ loc' = [loc EXCEPT !.dirty = TRUE]
    /\ UNCHANGED <<fixed, window, alive, settings, cpu_history, memory_history,
                   network_recv_history, time_points, prev_net_io, prev_time,
                   alerts, rate_labels, nticks, last, log, after_queue, ui,
                   overlap>>

\* self.network_recv_history.append(bytes_recv_per_sec)
w_net_append_recv ==
    /\ pc = "net_append_recv"
    /\ network_recv_history' = Append(network_recv_history, loc.recv_rate)
    /\ pc' = "after"
    /\ loc' = [loc EXCEPT !.dirty = FALSE, !.a = 1]
    /\ last' = [last EXCEPT !.net_pushed = TRUE]
    /\ UNCHANGED <<fixed, window, alive, settings, cpu_history, memory_history,
                   network_sent_history, time_points, prev_net_io, prev_time,
                   alerts, rate_labels, nticks, log, after_queue, ui, overlap>>

\* lines 614-619, one call per two steps: self.root.after(0, callback, ...)
\* is called from the update thread.  tkinter hands the call to the thread
\* of the main loop and waits until the main loop has served it; when the
\* main loop has ended (the root is destroyed) the call raises RuntimeError.
\* ok is FALSE when the call raises for another reason.
w_after(ok) ==
    /\ pc = "after"
    /\ IF destroyed \/ ~ok
       THEN Raise("after")
       ELSE /\ pc' = "after_wait"
            /\ UNCHANGED <<alive, last, loc, log>>
    /\ UNCHANGED <<fixed, window, settings, series, prev_net_io, prev_time,
                   alerts, rate_labels, nticks, after_queue, ui, overlap>>

\* the main loop serves the call between two handlers: the callback is
\* queued and the call returns.  Nothing is shown yet: the callback runs
\* later, on the UI thread.  A call that is waiting when the main loop ends
\* never returns.
w_after_return ==
    /\ pc = "after_wait"
    /\ UiIdle
    /\ after_queue' = Append(after_queue, Scheduled(Callbacks[loc.a], last.n))
    /\ pc' = IF loc.a < AllScheduled THEN "after"
             ELSE IF frontend = "vitalviz" THEN "thresholds"
             ELSE "prev"
    /\ loc' = [loc EXCEPT !.a = loc.a + 1]
    /\ last' = [last EXCEPT !.dispatched = loc.a]
    /\ UNCHANGED <<fixed, window, alive, settings, series, prev_net_io,
                   prev_time, alerts, rate_labels, nticks, log, ui, overlap>>

\* lines 622-623: the threshold check of vitalviz_gui.py.  The setting is
\* read once, at line 622; check_thresholds reads and writes the two flags,
\* which the UI thread never touches, so the call is one step.
w_thresholds(sink_ok) ==
    /\ pc = "thresholds"
    /\ LET check == NOTIFICATIONS_AVAILABLE /\ enable_notifications
           ct == check_thresholds(cpu_notified, memory_notified,
                                  loc.cpu_usage, loc.mem_percent, sink_ok)
           l == [last EXCEPT
                    !.failed_at = IF ct.raised THEN "notify" ELSE last.failed_at,
                    !.checked = TRUE,
                    !.notified = ct.notified,
                    !.post_cpu_notified = ct.cpu_notified,
                    !.post_memory_notified = ct.memory_notified]
       IN  IF check
           THEN /\ cpu_notified' = ct.cpu_notified
                /\ memory_notified' = ct.memory_notified
                /\ pc' = IF ct.raised THEN "sleep" ELSE "prev"
                /\ last' = l
                /\ log' = IF ct.raised THEN Logged(l) ELSE log
           ELSE /\ pc' = "prev"
                /\ UNCHANGED <<alerts, last, log>>
    /\ UNCHANGED <<fixed, window, alive, settings, series, prev_net_io,
                   prev_time, rate_labels, nticks, after_queue, loc, ui, overlap>>

\* lines 626-627: the previous sample, which update_data alone reads and
\* writes
w_prev ==
    /\ pc = "prev"
    /\ prev_net_io' = loc.net_io
    /\ prev_time' = loc.current_time
    /\ pc' = "sleep"
    /\ last' = [last EXCEPT !.failed_at = "none", !.prev_updated = TRUE]
    /\ log' = Logged(last)
    /\ UNCHANGED <<fixed, window, alive, settings, series, alerts, rate_labels,
                   nticks, after_queue, loc, ui, overlap>>

\* time.sleep(self.update_interval), outside the try: a negative interval
\* raises ValueError; time.sleep(1) in system_dashboard_gui.py
w_sleep ==
    /\ pc = "sleep"
    /\ IF frontend = "vitalviz" /\ update_interval < 0
       THEN pc' = "done" /\ alive' = FALSE
       ELSE pc' = "while" /\ UNCHANGED alive
    /\ last' = [last EXCEPT !.interval = IF frontend = "vitalviz"
                                         THEN update_interval
                                         ELSE 1]
    /\ UNCHANGED <<fixed, window, settings, series, prev_net_io, prev_time,
                   alerts, rate_labels, nticks, log, after_queue, loc, ui,
                   overlap>>

(***************************************************************************)
(* The UI thread.  It runs one handler at a time: a handler that has begun  *)
(* finishes before the main loop takes the next event.  Each assignment of  *)
(* reset_graphs, save_settings and on_closing is one step, and so is each   *)
(* read of a history list (its length, its truth value, one element of it)  *)
(* by a callback, by export_to_csv and by export_to_json, so the update     *)
(* thread runs between any two of them.                                     *)
(***************************************************************************)
\* the update thread is between the first and the last statement of an
\* iteration (an iteration that was abandoned never ends)
InTick == pc \notin {"while", "sleep", "done"}

ResetStmts == <<"cpu_history", "memory_history", "network_recv_history",
                "network_sent_history", "time_points">>

\* faulty variant: the reset also forgets which alerts were raised
reset_clears_alerts ==
    /\ frontend = "vitalviz"
    /\ rpc = 0
    /\ UiIdle
    /\ cpu_history' = [i \in Cores |-> <<>>]
    /\ memory_history' = <<>>
    /\ network_recv_history' = <<>>
    /\ network_sent_history' = <<>>
    /\ time_points' = <<>>
    /\ cpu_notified' = FALSE
    /\ memory_notified' = FALSE
    /\ log' = <<>>
    /\ overlap' = IF InTick THEN overlap + 1 ELSE overlap
    /\ UNCHANGED <<fixed, window, alive, settings, prev_net_io, prev_time,
                   rate_labels, nticks, last, after_queue, worker, ui>>
\* reset_graphs (View > Reset Graphs), lines 874-878: the next of its five
\* assignments
reset_graphs ==
    /\ frontend = "vitalviz"
    /\ rpc = 0 => UiIdle
    /\ LET stmt == ResetStmts[rpc + 1]
           finished == rpc + 1 = Len(ResetStmts)
       IN  /\ cpu_history' = IF stmt = "cpu_history" THEN [i \in Cores |-> <<>>]
                             ELSE cpu_history
           /\ memory_history' = IF stmt = "memory_history" THEN <<>>
                                ELSE memory_history
           /\ network_recv_history' = IF stmt = "network_recv_history" THEN <<>>
                                      ELSE network_recv_history
           /\ network_sent_history' = IF stmt = "network_sent_history" THEN <<>>
                                      ELSE network_sent_history
           /\ time_points' = IF stmt = "time_points" THEN <<>> ELSE time_points
           /\ rpc' = IF finished THEN 0 ELSE rpc + 1
           /\ log' = IF finished THEN <<>> ELSE log
    /\ overlap' = IF InTick THEN overlap + 1 ELSE overlap
    /\ UNCHANGED <<fixed, window, alive, settings, prev_net_io, prev_time,
                   alerts, rate_labels, nticks, last, after_queue, worker,
                   dialog, exp, cb, js>>

\* save_settings (the Save button of the settings dialog), lines 981-983:
\* the next of its three assignments.  interval, history and notifications
\* are the entries of the dialog.
save_settings(interval, history, notifications) ==
    /\ frontend = "vitalviz"
    /\ IF dialog.k = 0
       THEN /\ UiIdle
            /\ update_interval' = interval
            /\ dialog' = [k |-> 1, interval |-> interval, history |-> history,
                          notifications |-> notifications]
            /\ UNCHANGED <<max_history, enable_notifications>>
       ELSE /\ interval = dialog.interval
            /\ history = dialog.history
            /\ notifications = dialog.notifications
            /\ IF dialog.k = 1
               THEN /\ max_history' = history
                    /\ dialog' = [dialog EXCEPT !.k = 2]
                    /\ UNCHANGED <<update_interval, enable_notifications>>
               ELSE /\ enable_notifications' = notifications
                    /\ dialog' = NoDialog
                    /\ UNCHANGED <<update_interval, max_history>>
    /\ UNCHANGED <<fixed, window, alive, series, prev_net_io, prev_time, alerts,
                   rate_labels, nticks, last, log, after_queue, worker, rpc,
                   exp, cb, js, overlap>>

\* on_closing (the window is closed), lines 1150-1151 and
\* system_dashboard_gui.py:419-420: self.running = False, then
\* self.root.destroy(), which ends the main loop.  system_dashboard.py has
\* no window.
on_closing ==
    /\ frontend \in GUI
    /\ ~destroyed
    /\ IF running
       THEN UiIdle /\ running' = FALSE /\ UNCHANGED destroyed
       ELSE destroyed' = TRUE /\ UNCHANGED running
    /\ UNCHANGED <<fixed, alive, settings, series, prev_net_io, prev_time,
                   alerts, rate_labels, nticks, last, log, after_queue, worker,
                   ui, overlap>>

\* root.mainloop() has returned (line 1159; system_dashboard_gui.py:426):
\* the main thread reaches the end of the program and the interpreter exits.
\* The update thread is a daemon thread (lines 207-208;
\* system_dashboard_gui.py:86-87): it is abandoned at the statement it is at.
interpreter_exit ==
    /\ frontend \in GUI
    /\ destroyed
    /\ pc \notin {"done", "abandoned"}
    /\ pc' = "abandoned"
    /\ UNCHANGED <<fixed, window, alive, settings, series, prev_net_io,
                   prev_time, alerts, rate_labels, nticks, last, log,
                   after_queue, loc, ui, overlap>>

(***************************************************************************)
(* The callbacks update_ui_cpu, update_ui_memory and update_ui_network      *)
(* (lines 634-747; system_dashboard_gui.py:307-406) redraw a chart from the *)
(* history lists: `if history`, then range(len(history)) for the x axis,    *)
(* then the plot call, which is given the list itself.  Each of these reads *)
(* is one step.  The other callbacks read no history list.                  *)
(***************************************************************************)
\* the callbacks that plot a history list
Plotting == {"update_ui_cpu", "update_ui_memory", "update_ui_network"}

\* the first statement of a callback: update_ui_network begins with the
\* labels, the other plotting callbacks with `if history`; "call" is the
\* whole body of a callback that reads no history list
FirstStmt(callback) ==
    IF callback = "update_ui_network" THEN "labels"
    ELSE IF callback \in Plotting THEN "test"
    ELSE "call"

\* the history list a statement reads.  update_ui_network tests the sent
\* history and then the received one (line 733), measures the sent history
\* (734) and plots the sent history (737) and then the received one (738);
\* update_ui_memory tests, measures, plots and fills the memory history
\* (684-687); update_ui_cpu tests, measures and plots the history of core c
\* (647-649).
Shown(callback, stmt, c) ==
    IF callback = "update_ui_cpu" THEN cpu_history[c]
    ELSE IF callback = "update_ui_memory" THEN memory_history
    ELSE IF stmt \in {"test", "x", "plot"} THEN network_sent_history
    ELSE network_recv_history
ShownName(callback, stmt) ==
    IF callback = "update_ui_cpu" THEN "cpu"
    ELSE IF callback = "update_ui_memory" THEN "memory"
    ELSE IF stmt \in {"test", "x", "plot"} THEN "sent"
    ELSE "recv"

\* the function `callback` is entered with the rates sent and recv
Enter(record, callback, sent, recv) ==
    [record EXCEPT !.callback = callback, !.pc = FirstStmt(callback),
                   !.c = IF callback = "update_ui_cpu" THEN 1 ELSE 0,
                   !.x = 0, !.sent = sent, !.recv = recv]

\* the functions toggle_theme calls, lines 850-854
ThemeCalls == <<"update_ui_cpu", "update_ui_memory", "update_ui_network",
                "update_dashboard">>
ThemeIndex(callback) == CHOOSE k \in 1..Len(ThemeCalls) : ThemeCalls[k] = callback

\* the function returns: toggle_theme calls the next one with the rates
\* 0, 0; a callback of the main loop ends the handler
Return(record) ==
    IF record.via = "toggle_theme" /\ record.callback # ThemeCalls[Len(ThemeCalls)]
    THEN Enter(record, ThemeCalls[ThemeIndex(record.callback) + 1], Zero, Zero)
    ELSE [record EXCEPT !.pc = "idle"]

\* the statement after the body of `if history:`, or after a test that
\* found the list empty: the next core of update_ui_cpu, or the end of the
\* function
AfterPlot(record) ==
    IF record.callback = "update_ui_cpu" /\ record.c < NumCores
    THEN [record EXCEPT !.pc = "test", !.c = record.c + 1]
    ELSE Return(record)

\* The next statement of the function the UI thread is in.  A plot call
\* whose x and y differ in length raises ValueError in matplotlib, which
\* ends the callback (the main loop reports the exception; toggle_theme
\* catches it at line 855); accepted is TRUE for a plotting library that
\* draws them all the same.
callback_stmt(accepted) ==
    /\ cb.pc # "idle"
    /\ LET h == Shown(cb.callback, cb.pc, cb.c)
           read == [cb EXCEPT !.dirty = cb.dirty \/ loc.dirty]
           line == [list |-> ShownName(cb.callback, cb.pc), core |-> cb.c,
                    x |-> cb.x, y |-> h]
           drawn == [read EXCEPT !.lines = Append(cb.lines, line)]
       IN  CASE cb.pc = "call" ->
                  cb' = Return(cb)
             [] cb.pc = "labels" ->
                  cb' = [cb EXCEPT !.pc = "test"]
             [] cb.pc = "test" ->
                  cb' = IF h = <<>> THEN AfterPlot(read)
                        ELSE IF cb.callback = "update_ui_network"
                             THEN [read EXCEPT !.pc = "test2"]
                             ELSE [read EXCEPT !.pc = "x"]
             [] cb.pc = "test2" ->
                  cb' = IF h = <<>> THEN AfterPlot(read) ELSE [read EXCEPT !.pc = "x"]
             [] cb.pc = "x" ->
                  cb' = [read EXCEPT !.pc = "plot", !.x = Len(h)]
             [] cb.pc \in {"plot", "plot2"} ->
                  cb' = IF cb.x # Len(h) /\ ~accepted
                        THEN [drawn EXCEPT !.pc = "idle", !.raised = TRUE]
                        ELSE IF cb.pc = "plot" /\ cb.callback # "update_ui_cpu"
                             THEN [drawn EXCEPT !.pc = "plot2"]
                             ELSE AfterPlot(drawn)
    /\ rate_labels' = IF cb.pc = "labels"
                      THEN [sent |-> RateText(cb.sent), recv |-> RateText(cb.recv)]
                      ELSE rate_labels
    /\ UNCHANGED <<fixed, window, alive, settings, series, prev_net_io,
                   prev_time, alerts, nticks, last, log, after_queue, worker,
                   rpc, dialog, exp, js, overlap>>

\* the main loop runs the oldest callback scheduled with root.after(0, ...),
\* statement by statement; update_ui_network writes the rates it was passed
\* to the two rate labels
run_callback ==
    IF cb.pc = "idle"
    THEN /\ UiIdle
         /\ after_queue # <<>>
         /\ cb' = Enter([NoCallback EXCEPT !.n = Head(after_queue).n, !.via = "after"],
                        Head(after_queue).callback,
                        Head(after_queue).sent, Head(after_queue).recv)
         /\ after_queue' = Tail(after_queue)
         /\ UNCHANGED <<fixed, window, alive, settings, series, prev_net_io,
                        prev_time, alerts, rate_labels, nticks, last, log,
                        worker, rpc, dialog, exp, js, overlap>>
    ELSE /\ cb.via = "after"
         /\ \E accepted \in BOOLEAN : callback_stmt(accepted)

\* toggle_theme (the theme switch), lines 836-856: the charts are redrawn
\* from the history lists by update_ui_cpu, update_ui_memory,
\* update_ui_network and update_dashboard, the last two called with the
\* rates 0, 0
toggle_theme ==
    IF cb.pc = "idle"
    THEN /\ frontend = "vitalviz"
         /\ UiIdle
         /\ cb' = Enter([NoCallback EXCEPT !.via = "toggle_theme"],
                        ThemeCalls[1], Zero, Zero)
         /\ UNCHANGED <<fixed, window, alive, settings, series, prev_net_io,
                        prev_time, alerts, rate_labels, nticks, last, log,
                        after_queue, worker, rpc, dialog, exp, js, overlap>>
    ELSE /\ cb.via = "toggle_theme"
         /\ \E accepted \in BOOLEAN : callback_stmt(accepted)

(***************************************************************************)
(* The exports.                                                             *)
(***************************************************************************)
\* the element of the list h at the 0-based index i
At(h, i) == h[i + 1]

\* faulty variant: the export consumes the points it writes
export_drains(now) ==
    /\ frontend = "vitalviz"
    /\ UiIdle
    /\ memory_history # <<>>
    /\ exp' = [NoExport EXCEPT !.n = Len(memory_history)]
    /\ memory_history' = <<>>
    /\ UNCHANGED <<fixed, window, alive, settings, cpu_history,
                   network_recv_history, network_sent_history, time_points,
                   prev_net_io, prev_time, alerts, rate_labels, nticks, last,
                   log, after_queue, worker, rpc, dialog, cb, js, overlap>>
\* export_to_csv (File > Export Data, CSV), lines 1054-1067: the next read of
\* the loop that writes one row per point memory_history held when the
\* loop began.  A conditional expression is two reads, the test of the
\* length and the indexing; the generator expression of line 1061 makes
\* both for each core in turn (exp.c), adding up in exp.sum.  now is the
\* reading of datetime.now() of line 1059.  An index out of range raises
\* IndexError, which ends the export with the rows written so far.
\* cpu_data (line 1054) names the list self.cpu_history names: no
\* specification runs reset_graphs, which rebinds it, with an export.
export_to_csv(now) ==
    /\ frontend = "vitalviz"
    /\ LET i == exp.i
           read == [exp EXCEPT !.row.dirty = exp.row.dirty \/ loc.dirty]
           IndexError == [exp EXCEPT !.pc = "idle", !.failed = TRUE]
           \* the generator expression goes on to the next core, or sum()
           \* returns and the mean is taken
           NextCore(e) ==
               IF e.c < NumCores
               THEN [e EXCEPT !.pc = "cpu_test", !.c = e.c + 1]
               ELSE [e EXCEPT !.pc = "mem_test", !.c = 0, !.sum = 0,
                              !.row.avg_cpu = Fmt2(TrueDiv(e.sum, NumCores))]
           \* the row is written and the loop goes on to the next index
           NextRow(e) ==
               [e EXCEPT !.pc = IF i + 1 < exp.n THEN "test" ELSE "idle",
                         !.i = i + 1, !.row = NoRow,
                         !.rows = Append(exp.rows, e.row)]
           \* `h[i] if i < len(h) else 0`: the test ...
           Test(reading, h, field) ==
               IF i < Len(h) THEN [read EXCEPT !.pc = reading]
               ELSE field
           \* ... and the indexing
           Index(h, field) == IF i < Len(h) THEN field ELSE IndexError
       IN  CASE exp.pc = "idle" ->
                  /\ UiIdle
                  /\ exp' = [NoExport EXCEPT
                                !.n = Len(memory_history),
                                !.pc = IF memory_history = <<>> THEN "idle" ELSE "test"]
             [] exp.pc = "test" ->
                  exp' = [read EXCEPT !.pc = IF i < Len(time_points) THEN "timestamp"
                                             ELSE "fallback"]
             [] exp.pc = "timestamp" ->
                  exp' = Index(time_points,
                               [read EXCEPT !.pc = "cpu_test", !.c = 1, !.sum = 0,
                                            !.row.timestamp = At(time_points, i)])
             [] exp.pc = "fallback" ->
                  exp' = [exp EXCEPT !.pc = "cpu_test", !.c = 1, !.sum = 0,
                                     !.row.timestamp = HMS(now)]
             [] exp.pc = "cpu_test" ->
                  exp' = IF i < Len(cpu_history[exp.c])
                         THEN [read EXCEPT !.pc = "cpu_read"]
                         ELSE NextCore(read)
             [] exp.pc = "cpu_read" ->
                  exp' = Index(cpu_history[exp.c],
                               NextCore([read EXCEPT
                                            !.sum = exp.sum + At(cpu_history[exp.c], i)]))
             [] exp.pc = "mem_test" ->
                  exp' = Test("mem_read", memory_history,
                              [read EXCEPT !.pc = "sent_test",
                                           !.row.memory = Fmt2(Zero)])
             [] exp.pc = "mem_read" ->
                  exp' = Index(memory_history,
                               [read EXCEPT !.pc = "sent_test",
                                            !.row.memory = Fmt2(Frac(At(memory_history, i)))])
             [] exp.pc = "sent_test" ->
                  exp' = Test("sent_read", network_sent_history,
                              [read EXCEPT !.pc = "recv_test",
                                           !.row.net_send = Fmt2(Zero)])
             [] exp.pc = "sent_read" ->
                  exp' = Index(network_sent_history,
                               [read EXCEPT !.pc = "recv_test",
                                            !.row.net_send = Fmt2(At(network_sent_history, i))])
             [] exp.pc = "recv_test" ->
                  exp' = Test("recv_read", network_recv_history,
                              NextRow([read EXCEPT !.row.net_recv = Fmt2(Zero)]))
             [] exp.pc = "recv_read" ->
                  exp' = Index(network_recv_history,
                               NextRow([read EXCEPT
                                           !.row.net_recv = Fmt2(At(network_recv_history, i))]))
    /\ UNCHANGED <<fixed, window, alive, settings, series, prev_net_io,
                   prev_time, alerts, rate_labels, nticks, last, log,
                   after_queue, worker, rpc, dialog, cb, js, overlap>>

\* the list export_to_json writes k-th
JsonList(k) ==
    IF k = 1 THEN time_points
    ELSE IF k <= NumCores + 1 THEN cpu_history[k - 1]
    ELSE IF k = NumCores + 2 THEN memory_history
    ELSE IF k = NumCores + 3 THEN network_sent_history
    ELSE network_recv_history

\* export_to_json (File > Export Data, JSON), lines 1088-1107: the dictionary
\* holds the history lists themselves, and json.dump(data, jsonfile,
\* indent=2) encodes them in Python, one after another: `if not lst` and
\* then one element per step of the loop over the list, whose iterator
\* looks up the next index in the list as it is at that moment.
export_to_json ==
    /\ frontend = "vitalviz"
    /\ LET h == JsonList(js.k)
           read == [js EXCEPT !.dirty = js.dirty \/ loc.dirty]
           NextList(j) == IF js.k < NumLists
                          THEN [j EXCEPT !.pc = "test", !.k = js.k + 1, !.i = 0]
                          ELSE [j EXCEPT !.pc = "idle", !.k = 0, !.i = 0]
       IN  CASE js.pc = "idle" ->
                  /\ UiIdle
                  /\ js' = [NoJson EXCEPT !.pc = "test", !.k = 1]
             [] js.pc = "test" ->
                  js' = IF h = <<>> THEN NextList(read) ELSE [read EXCEPT !.pc = "next"]
             [] js.pc = "next" ->
                  js' = IF js.i < Len(h)
                        THEN [read EXCEPT !.i = js.i + 1,
                                          !.file[js.k] = Append(js.file[js.k], At(h, js.i))]
                        ELSE NextList(read)
    /\ UNCHANGED <<fixed, window, alive, settings, series, prev_net_io,
                   prev_time, alerts, rate_labels, nticks, last, log,
                   after_queue, worker, rpc, dialog, exp, cb, overlap>>

(***************************************************************************)
(* main (system_dashboard.py): one iteration of `while True:`.  The program *)
(* has one thread, no window and no history; prev_net_io and prev_time are  *)
(* locals of main, and rate_labels are the rates generate_network_table     *)
(* puts in the table.  Only KeyboardInterrupt is caught: any other          *)
(* exception ends the program.                                              *)
(***************************************************************************)
\* faulty variant: the previous timestamp is stored as soon as the clock is
\* read, the previous counters only at the end of the iteration
MainStoresTimeFirst(current_time, net_io, disk_ok) ==
    /\ frontend = "cli"
    /\ alive
    /\ LET time_diff == current_time - prev_time
           done == disk_ok /\ time_diff # 0
           bytes_sent_per_sec ==
               IF done THEN Rate(net_io.bytes_sent, prev_net_io.bytes_sent, time_diff)
               ELSE Zero
           bytes_recv_per_sec ==
               IF done THEN Rate(net_io.bytes_recv, prev_net_io.bytes_recv, time_diff)
               ELSE Zero
       IN  /\ rate_labels' = IF done
                             THEN [sent |-> RateText(bytes_sent_per_sec),
                                   recv |-> RateText(bytes_recv_per_sec)]
                             ELSE rate_labels
           /\ prev_net_io' = IF done THEN net_io ELSE prev_net_io
           /\ prev_time' = current_time
           /\ alive' = done
           /\ nticks' = nticks + 1
           /\ last' = [NoTick EXCEPT !.n = nticks + 1,
                                     !.failed_at = IF done THEN "none" ELSE "provider",
                                     !.current_time = current_time,
                                     !.time_diff = time_diff,
                                     !.prev_net_io = prev_net_io, !.net_io = net_io,
                                     !.sent_rate = bytes_sent_per_sec,
                                     !.recv_rate = bytes_recv_per_sec,
                                     !.prev_updated = done]
    /\ UNCHANGED <<fixed, window, settings, series, alerts, log, after_queue,
                   worker, ui, overlap>>
main(current_time, net_io, disk_ok) ==
    /\ frontend = "cli"
    /\ alive
    /\ LET time_diff == current_time - prev_time
           failed_at == IF ~disk_ok THEN "provider"
                        ELSE IF time_diff = 0 THEN "division"
                        ELSE "none"
           done == failed_at = "none"
           bytes_sent_per_sec ==
               IF done THEN Rate(net_io.bytes_sent, prev_net_io.bytes_sent, time_diff)
               ELSE Zero
           bytes_recv_per_sec ==
               IF done THEN Rate(net_io.bytes_recv, prev_net_io.bytes_recv, time_diff)
               ELSE Zero
       IN  /\ rate_labels' = IF done
                             THEN [sent |-> RateText(bytes_sent_per_sec),
                                   recv |-> RateText(bytes_recv_per_sec)]
                             ELSE rate_labels
           /\ prev_net_io' = IF done THEN net_io ELSE prev_net_io
           /\ prev_time' = IF done THEN current_time ELSE prev_time
           /\ alive' = done
           /\ nticks' = nticks + 1
           /\ last' = [NoTick EXCEPT !.n = nticks + 1, !.failed_at = failed_at,
                                     !.current_time = current_time,
                                     !.time_diff = time_diff,
                                     !.prev_net_io = prev_net_io, !.net_io = net_io,
                                     !.sent_rate = bytes_sent_per_sec,
                                     !.recv_rate = bytes_recv_per_sec,
                                     !.prev_updated = done]
    /\ UNCHANGED <<fixed, window, settings, series, alerts, log, after_queue,
                   worker, ui, overlap>>

(***************************************************************************)
(* Specifications.  The update thread is the statements of update_data in   *)
(* program order; what the clock, the providers, root.after and the         *)
(* notification sink return is drawn from small sets, and each              *)
(* specification widens the readings its claims are about.                  *)
(***************************************************************************)
\* what one iteration reads at lines 576-583
Reading(current_time, cpu_usage, mem_percent, net_io, disk_ok) ==
    [current_time |-> current_time, cpu_usage |-> cpu_usage,
     mem_percent |-> mem_percent, net_io |-> net_io, disk_ok |-> disk_ok]

\* the update thread, for at most `ticks` iterations: Readings is what an
\* iteration may read, Skews the seconds by which datetime.now() of line 588
\* may be ahead of time.time() of line 576, Afters whether a root.after call
\* made while the main loop runs is accepted, Sinks whether
\* notification.notify may return
Worker(ticks, Readings, Skews, Afters, Sinks) ==
    \/ (running => nticks < ticks) /\ w_while
    \/ \E r \in Readings :
          w_read(r.current_time, r.cpu_usage, r.mem_percent, r.net_io, r.disk_ok)
    \/ w_len
    \/ w_pop
    \/ \E skew \in Skews : w_append(loc.current_time + skew)
    \/ w_rates
    \/ w_net_len
    \/ w_net_pop_sent
    \/ w_net_pop_recv
    \/ w_net_append_sent
    \/ w_net_append_recv
    \/ \E ok \in Afters : w_after(ok)
    \/ w_after_return
    \/ \E sink_ok \in Sinks : w_thresholds(sink_ok)
    \/ w_prev
    \/ w_sleep

\* per-core CPU percentages: the means are 50, 70, 90 and 95
CpuReadings == {<<50, 50>>, <<50, 90>>, <<90, 90>>, <<90, 100>>}
MemVals == {70, 75, 85, 90}
OneCpu == [i \in Cores |-> 50]
HotCpu == [i \in Cores |-> IF i = 1 THEN 90 ELSE 100]
OneNet == [bytes_sent |-> 0, bytes_recv |-> 0]
\* the counters of the previous sample with `sent` more bytes sent
Sent(sent) == [bytes_sent |-> prev_net_io.bytes_sent + sent,
               bytes_recv |-> prev_net_io.bytes_recv]

\* Spec: the history lists of both GUIs under iterations that complete and
\* iterations that fail at the division (the clock did not advance)
Init == InitWith(GUI, {TRUE}, {OneNet}, {0})

Readings ==
    {Reading(prev_time + 1, OneCpu, 70, Sent(0), TRUE),
     Reading(prev_time + 1, HotCpu, 90, Sent(1), TRUE),
     Reading(prev_time, OneCpu, 70, Sent(0), TRUE)}

Tick == Worker(MaxTicks, Readings, {0, 1}, {TRUE}, {TRUE})

Next == Tick

Spec == Init /\ [][Next]_vars

\* SpecRate: the network rates over the pairs of counters and timestamps.
\* The first two iterations read any clock value and any counters (a first
\* tick, then a pair of consecutive ticks); later iterations are one second
\* and one byte apart.
InitRate == InitWith(GUI, {TRUE}, NetIO({0, 1}, {0}), {0, 1})

ReadingsRate ==
    IF nticks <= 2
    THEN {Reading(current_time, OneCpu, 50, net_io, TRUE) :
              current_time \in TimeVals, net_io \in NetIO(CounterVals, {0, 1})}
    ELSE {Reading(prev_time + 1, OneCpu, 50, Sent(1), TRUE)}

TickRate == Worker(MaxTicksRate, ReadingsRate, {0}, {TRUE}, {TRUE})

NextRate == TickRate

SpecRate == InitRate /\ [][NextRate]_vars

\* SpecCapacity: the history length saved in the settings dialog while the
\* update thread fills the lists
InitAlert == InitWith({"vitalviz"}, {TRUE}, {OneNet}, {0})

\* iteration n reads n % on every core and for the memory, and n more bytes
\* sent than the previous sample, one second after it: the points of
\* iteration n are n in every series
Steady == {Reading(prev_time + 1, [i \in Cores |-> last.n], last.n, Sent(last.n), TRUE)}

TickCapacity == Worker(MaxTicksCapacity, Steady, {0}, {TRUE}, {TRUE})

Save == \E history \in {1, DEFAULT_MAX_HISTORY} :
            save_settings(update_interval, history, enable_notifications)

NextCapacity == TickCapacity \/ Save

SpecCapacity == InitAlert /\ [][NextCapacity]_vars

\* SpecAlert: the notification thresholds.  The first two iterations read
\* every mean CPU and memory value around the thresholds, and the
\* notifications are switched on and off in the settings dialog.
ReadingsAlert ==
    IF nticks <= 2
    THEN {Reading(prev_time + 1, cpu_usage, mem_percent, OneNet, TRUE) :
              cpu_usage \in CpuReadings, mem_percent \in MemVals}
    ELSE {Reading(prev_time + 1, OneCpu, 80, OneNet, TRUE)}

TickAlert == Worker(MaxTicksAlert, ReadingsAlert, {0}, {TRUE}, BOOLEAN)

SaveAlert == \E notifications \in BOOLEAN :
                save_settings(update_interval, max_history, notifications)

NextAlert == TickAlert \/ SaveAlert

SpecAlert == InitAlert /\ [][NextAlert]_vars

\* SpecHyst: sequences of values around the dead band, every core reading the
\* same percentage so that the mean is that percentage
HystVals == {65, 75, 85, 95}
HystMemVals == {70, 90}

ReadingsHyst ==
    {Reading(prev_time + 1, [i \in Cores |-> v], mem_percent, OneNet, TRUE) :
         v \in HystVals, mem_percent \in HystMemVals}

TickHyst == Worker(MaxTicksHyst, ReadingsHyst, {0}, {TRUE}, {TRUE})

NextHyst == TickHyst

SpecHyst == InitAlert /\ [][NextHyst]_vars

\* SpecFail: iterations on which a provider, a root.after call or the
\* notification sink raises, in each of the three front-ends
InitFail == InitWith({"vitalviz", "basic", "cli"}, {TRUE}, {OneNet}, {0})

ReadingsFail ==
    {Reading(prev_time + 1, [i \in Cores |-> 100], 90, OneNet, disk_ok) :
         disk_ok \in BOOLEAN}

TickFail == Worker(MaxTicksFail, ReadingsFail, {0}, BOOLEAN, BOOLEAN)

MainFail ==
    /\ nticks < MaxTicksFail
    /\ \E sent \in BOOLEAN, disk_ok \in BOOLEAN :
          main(prev_time + 1, Sent(IF sent THEN 1 ELSE 0), disk_ok)

NextFail == TickFail \/ MainFail

SpecFail == InitFail /\ [][NextFail]_vars

\* SpecInterval: the update interval entered in the settings dialog; the
\* entry accepts any integer
IntervalVals == {-1, 0, 1, 2}

TickInterval == Worker(MaxTicksInterval, Steady, {0}, {TRUE}, {TRUE})

SaveInterval == \E interval \in IntervalVals :
                    save_settings(interval, max_history, enable_notifications)

NextInterval == TickInterval \/ SaveInterval

SpecInterval == InitAlert /\ [][NextInterval]_vars

\* SpecScenario: consecutive ticks one second apart, the first at t = 0, over
\* counters that rise and fall
ScenarioBytes == {500, 1000, 3000}
InitScenario == InitWith(GUI, {TRUE}, NetIO({0, 1000}, {0}), {-1})

ReadingsScenario ==
    {Reading(prev_time + 1, OneCpu, 50, net_io, TRUE) :
         net_io \in NetIO(ScenarioBytes, {0, 500})}

TickScenario == Worker(MaxTicksScenario, ReadingsScenario, {0}, {TRUE}, {TRUE})

NextScenario == TickScenario

SpecScenario == InitScenario /\ [][NextScenario]_vars

\* SpecGate: the thresholds with and without the plyer package, the
\* notifications switched on and off in the settings dialog, and a sink that
\* works; the memory is above its threshold when the CPU is
GateVals == {65, 80, 95}
InitGate == InitWith({"vitalviz"}, BOOLEAN, {OneNet}, {0})

ReadingsGate ==
    {Reading(prev_time + 1, [i \in Cores |-> v], IF v > CPU_ENTER THEN 90 ELSE 70,
             OneNet, TRUE) : v \in GateVals}

TickGate == Worker(MaxTicksGate, ReadingsGate, {0}, {TRUE}, {TRUE})

NextGate == TickGate \/ SaveAlert

SpecGate == InitGate /\ [][NextGate]_vars

\* SpecPrev: completed and failed iterations of the three front-ends.  The
\* first two iterations read a clock that stands still or advances and two
\* counter values, and fail at a provider, at the division, at the first or
\* the last root.after call or at the notification sink; the window may be
\* closed at any moment.
ReadingsPrev ==
    IF nticks <= 2
    THEN {Reading(current_time, [i \in Cores |-> 100], 90, net_io, disk_ok) :
              current_time \in {prev_time, prev_time + 1},
              net_io \in NetIO({0, 1}, {0}), disk_ok \in BOOLEAN}
    ELSE {Reading(prev_time + 1, [i \in Cores |-> 100], 90, Sent(1), TRUE)}

AftersPrev == IF pc = "after" /\ loc.a \in {1, AllScheduled} THEN BOOLEAN ELSE {TRUE}

TickPrev == Worker(MaxTicksPrev, ReadingsPrev, {0}, AftersPrev, BOOLEAN)

MainPrev ==
    /\ nticks < MaxTicksPrev
    /\ \E current_time \in {prev_time, prev_time + 1}, net_io \in NetIO({0, 1}, {0}),
          disk_ok \in BOOLEAN :
          main(current_time, net_io, disk_ok)

Close == on_closing \/ interpreter_exit

NextPrev == TickPrev \/ MainPrev \/ Close

SpecPrev == InitFail /\ [][NextPrev]_vars

\* SpecReset: reset_graphs against iterations whose mean CPU is above the
\* enter threshold or, on the first two, below the clear threshold, with an
\* update interval other than the default.  At most one reset_graphs begins
\* during an iteration.
ReadingsReset ==
    {Reading(prev_time + 1, [i \in Cores |-> v], 70, Sent(1), TRUE) :
         v \in IF nticks <= 2 THEN {65, 95} ELSE {95}}

TickReset == Worker(MaxTicksReset, ReadingsReset, {0}, {TRUE}, {TRUE})

Reset == (rpc = 0 => overlap = 0) /\ reset_graphs

\* the Save button is pressed before the first iteration
SaveReset ==
    /\ dialog.k = 0 => nticks = 0
    /\ save_settings(2, max_history, enable_notifications)

NextReset == TickReset \/ Reset \/ SaveReset

SpecReset == InitAlert /\ [][NextReset]_vars

\* SpecRace: the update thread against reset_graphs
WorkerRace == Worker(MaxTicksRace, Steady, {0}, {TRUE}, {TRUE})

NextRace == WorkerRace \/ Reset

SpecRace == InitAlert /\ [][NextRace]_vars

\* SpecClose: the update thread of either GUI against on_closing and the
\* end of the program.  The update thread is scheduled again and again as
\* long as it has a statement to execute: a root.after call that waits for
\* the main loop is not one.
WorkerClose == Worker(MaxTicksClose, Steady, {0}, {TRUE}, {TRUE})

NextClose == WorkerClose \/ Close

SpecClose == Init /\ [][NextClose]_vars /\ WF_vars(WorkerClose)

\* SpecUi: the update thread against the callbacks and the CSV export of the
\* UI thread
WorkerUi == Worker(MaxTicksUi, Steady, {0}, {TRUE}, {TRUE})

\* File > Export Data, CSV is chosen once, during iteration `ticks`, when no
\* callback is waiting
ExportOnce(ticks) ==
    /\ exp.pc = "idle" => (exp = NoExport /\ nticks = ticks /\ after_queue = <<>>)
    /\ export_to_csv(prev_time + 1)

ExportUi == ExportOnce(MaxTicksUi)

NextUi == WorkerUi \/ run_callback \/ ExportUi

SpecUi == InitAlert /\ [][NextUi]_vars

\* SpecConsumers: iterations that fill the series and raise the alerts,
\* against every operation of the UI thread that reads them (SpecUi has the
\* callbacks that lag behind)
ReadingsConsumers ==
    {Reading(prev_time + 1, [i \in Cores |-> 100], 90, Sent(1), TRUE)}

\* the UI thread keeps up with the update thread: an iteration begins when
\* the callbacks of the one before have run
TickConsumers ==
    /\ pc = "while" => (after_queue = <<>> /\ cb.pc = "idle")
    /\ Worker(MaxTicksConsumers, ReadingsConsumers, {0}, {TRUE}, {TRUE})

\* One of the three handlers runs in a behaviour, the export as JSON, the
\* export as CSV (File > Export Data, do_export at lines 1015-1021) or the
\* theme switch (line 231), chosen during the last iteration while no
\* callback waits
MenuUnused == js = NoJson /\ exp = NoExport /\ cb.via # "toggle_theme"
MenuConsumers == MenuUnused /\ nticks = MaxTicksConsumers /\ after_queue = <<>>

JsonConsumers ==
    /\ js.pc = "idle" => MenuConsumers
    /\ export_to_json

ExportConsumers ==
    /\ exp.pc = "idle" => MenuConsumers
    /\ export_to_csv(prev_time + 1)

ThemeConsumers ==
    /\ cb.pc = "idle" => MenuConsumers
    /\ toggle_theme

NextConsumers ==
    TickConsumers \/ run_callback \/ ExportConsumers \/ JsonConsumers \/ ThemeConsumers

SpecConsumers == InitAlert /\ [][NextConsumers]_vars

(***************************************************************************)
(* Properties.  `last` is the latest iteration of the loop: what it read    *)
(* (prev_net_io, net_io, time_diff, cpu_usage, mem_percent), what it        *)
(* computed and how far it got; last.failed_at is "running" until the       *)
(* iteration ends.  log holds the iterations that ended since construction  *)
(* or the last reset.                                                       *)
(***************************************************************************)
\* the latest iteration has ended
Ticked == last.failed_at \notin {"never", "running"}
SentDelta == last.net_io.bytes_sent - last.prev_net_io.bytes_sent
RecvDelta == last.net_io.bytes_recv - last.prev_net_io.bytes_recv
NonNegative(h) == \A i \in 1..Len(h) : h[i].num >= 0
\* the fraction r is the quotient delta / elapsed (-0.0 is 0 / elapsed for a
\* negative elapsed)
IsQuotient(r, delta, elapsed) == r.den # 0 /\ r.num * elapsed = delta * r.den
\* the callback c of iteration n is scheduled
Queued(c, n) ==
    \E k \in 1..Len(after_queue) :
        after_queue[k].callback = c /\ after_queue[k].n = n
\* the rates passed to the callbacks that are scheduled
Reported == {[sent |-> after_queue[k].sent, recv |-> after_queue[k].recv] :
                k \in {j \in 1..Len(after_queue) :
                          after_queue[j].callback \in RateConsumers}}
\* the rates passed to the callbacks of iteration n
ReportedBy(n) ==
    {[sent |-> after_queue[k].sent, recv |-> after_queue[k].recv] :
        k \in {j \in 1..Len(after_queue) :
                  /\ after_queue[j].callback \in RateConsumers
                  /\ after_queue[j].n = n}}
\* the iteration appended its rates to the network history and passed them
\* to update_ui_network and update_dashboard
RatesStored ==
    /\ last.net_pushed
    /\ network_sent_history # <<>>
    /\ network_sent_history[Len(network_sent_history)] = last.sent_rate
    /\ network_recv_history # <<>>
    /\ network_recv_history[Len(network_recv_history)] = last.recv_rate
    /\ ReportedBy(last.n) = {[sent |-> last.sent_rate, recv |-> last.recv_rate]}

\* C1: a counter that went down (curr < prev) yields the rate 0 for that
\* tick, and no rate reported or stored in the network history is negative.
\* Stated for the ticks with elapsed > 0: every stored rate is appended by
\* one tick, and the ticks with elapsed <= 0 are the case of C3.
C1_ResetClampedToZero ==
    (Ticked /\ last.net_pushed /\ last.time_diff > 0) =>
        /\ SentDelta < 0 => last.sent_rate = Zero
        /\ RecvDelta < 0 => last.recv_rate = Zero
        /\ NonNegative(<<last.sent_rate, last.recv_rate>>)
        /\ network_sent_history[Len(network_sent_history)].num >= 0
        /\ network_recv_history[Len(network_recv_history)].num >= 0
        /\ \A r \in Reported : r.sent.num >= 0 /\ r.recv.num >= 0

\* C2: with prev <= curr on a counter and elapsed > 0, the rate derived for
\* that counter is (curr - prev) / elapsed, it is non-negative, and it is the
\* value stored and reported for the tick.
C2_RateIsDeltaOverElapsed ==
    (Ticked /\ last.time_diff > 0 /\ last.failed_at \notin {"provider", "pop"}) =>
        /\ RatesStored
        /\ SentDelta >= 0 =>
              IsQuotient(last.sent_rate, SentDelta, last.time_diff)
              /\ last.sent_rate.num >= 0
        /\ RecvDelta >= 0 =>
              IsQuotient(last.recv_rate, RecvDelta, last.time_diff)
              /\ last.recv_rate.num >= 0

\* a tick two seconds after the previous one on which one byte was sent
\* (rate 1/2) and the received counter did not move
C2_Witness ==
    /\ Ticked
    /\ last.time_diff = 2
    /\ SentDelta = 1
    /\ RecvDelta = 0
    /\ last.net_pushed
    /\ last.sent_rate = [num |-> 1, den |-> 2]
    /\ ReportedBy(last.n) = {[sent |-> [num |-> 1, den |-> 2], recv |-> Zero]}

\* C3: a tick whose elapsed time is <= 0 skips the rate computation, reports
\* the previous tick's rates unchanged, divides by nothing and completes,
\* every series (CPU, memory, network) receiving its point.
C3_ElapsedGuard ==
    (Ticked /\ last.time_diff <= 0) =>
        /\ last.failed_at = "none"
        /\ last.pushed
        /\ last.net_pushed
        /\ last.sent_rate = last.pre_rates.sent
        /\ last.recv_rate = last.pre_rates.recv
        /\ ReportedBy(last.n) = {last.pre_rates}

\* C4: every rate reported and appended by the first tick is 0, whatever
\* the counters read before the loop started.  Stated for the first ticks
\* with elapsed > 0 on which no counter went down.
C4_FirstTickZero ==
    (/\ last.n = 1
     /\ Ticked
     /\ last.net_pushed
     /\ last.time_diff > 0
     /\ SentDelta >= 0
     /\ RecvDelta >= 0) =>
        /\ last.sent_rate = Zero
        /\ last.recv_rate = Zero
        /\ network_sent_history = <<Zero>>
        /\ network_recv_history = <<Zero>>
        /\ ReportedBy(1) = {[sent |-> Zero, recv |-> Zero]}

\* C4 (amended): the first tick does not skip the rate computation; its
\* previous sample is the counters and the timestamp read at construction,
\* and every rate it stores and reports is
\* (curr - counter at construction) / (time since construction).
C4_FirstTickFromConstruction ==
    [][(last.n = 1 /\ ~last.prev_updated /\ last'.prev_updated) =>
          LET elapsed == last.current_time - prev_time
          IN  /\ elapsed # 0
              /\ network_sent_history = <<last.sent_rate>>
              /\ network_recv_history = <<last.recv_rate>>
              /\ ReportedBy(1) = {[sent |-> last.sent_rate, recv |-> last.recv_rate]}
              /\ IsQuotient(last.sent_rate,
                            last.net_io.bytes_sent - prev_net_io.bytes_sent,
                            elapsed)
              /\ IsQuotient(last.recv_rate,
                            last.net_io.bytes_recv - prev_net_io.bytes_recv,
                            elapsed)]_vars

\* the first tick stores and reports a rate that is not 0
C4_Witness ==
    /\ last.n = 1
    /\ Ticked
    /\ last.net_pushed
    /\ last.time_diff = 1
    /\ last.prev_net_io.bytes_sent = 1
    /\ last.net_io.bytes_sent = 2
    /\ network_sent_history = <<[num |-> 1, den |-> 1]>>
    /\ ReportedBy(1) = {[sent |-> [num |-> 1, den |-> 1], recv |-> last.recv_rate]}

\* C5: every series has length <= the history capacity in force.
C5_SeriesWithinCapacity ==
    /\ Len(time_points) <= max_history
    /\ \A i \in Cores : Len(cpu_history[i]) <= max_history
    /\ Len(memory_history) <= max_history
    /\ Len(network_sent_history) <= max_history
    /\ Len(network_recv_history) <= max_history

\* the update thread is between two iterations
AtBoundary == ~InTick
\* the values pushed to each series since construction or the last reset
NetLog == SelectSeq(log, LAMBDA e : e.net_pushed)
PushedTime == [i \in 1..Len(log) |-> HMS(log[i].now)]
PushedCpu(c) == [i \in 1..Len(log) |-> log[i].cpu_usage[c]]
PushedMem == [i \in 1..Len(log) |-> log[i].mem_percent]
PushedSent == [i \in 1..Len(NetLog) |-> NetLog[i].sent_rate]
PushedRecv == [i \in 1..Len(NetLog) |-> NetLog[i].recv_rate]
\* the last n elements of s, oldest first
LastN(s, n) == [i \in 1..n |-> s[Len(s) - n + i]]
\* a series filled past its capacity holds the last MAX_HISTORY values pushed
Evicted(h, pushed) ==
    Len(pushed) > MAX_HISTORY => h = LastN(pushed, MAX_HISTORY)

\* C6: after capacity + k pushes (k >= 1) without a reset, a series holds
\* exactly capacity values: the last capacity values pushed, oldest first.
\* Stated between two iterations, when every push of the latest iteration
\* is done.
C6_FifoEviction ==
    AtBoundary =>
        /\ Evicted(time_points, PushedTime)
        /\ \A c \in Cores : Evicted(cpu_history[c], PushedCpu(c))
        /\ Evicted(memory_history, PushedMem)
        /\ Evicted(network_sent_history, PushedSent)
        /\ Evicted(network_recv_history, PushedRecv)

\* two more points than the capacity were pushed to every series, and the
\* values kept differ from one another
C6_Witness ==
    /\ AtBoundary
    /\ Len(NetLog) = MAX_HISTORY + 2
    /\ Len(memory_history) = MAX_HISTORY
    /\ memory_history[1] # memory_history[MAX_HISTORY]
    /\ time_points[1] # time_points[MAX_HISTORY]
    /\ network_sent_history[1] # network_sent_history[MAX_HISTORY]
    /\ PushedMem[1] # PushedMem[2]

\* h2 is h1 cut from the front to at most c points
Truncated(h2, h1, c) == h2 = LastN(h1, IF Len(h1) < c THEN Len(h1) ELSE c)

\* C7: saving a capacity c truncates every series from the front to at most
\* c points, and every later push keeps every series within c.
C7_CapacityConfigurable ==
    [][/\ max_history' # max_history =>
             /\ Truncated(time_points', time_points, max_history')
             /\ Truncated(memory_history', memory_history, max_history')
             /\ Truncated(network_sent_history', network_sent_history, max_history')
             /\ Truncated(network_recv_history', network_recv_history, max_history')
             /\ \A c \in Cores :
                    Truncated(cpu_history'[c], cpu_history[c], max_history')
       /\ series' # series =>
             /\ Len(time_points') <= max_history
             /\ Len(memory_history') <= max_history
             /\ Len(network_sent_history') <= max_history
             /\ Len(network_recv_history') <= max_history
             /\ \A c \in Cores : Len(cpu_history'[c]) <= max_history]_vars

(***************************************************************************)
(* The alert state of a quantity is Alerted when its flag is set.           *)
(***************************************************************************)
\* the notification the code would deliver when an alert is cleared
Cleared(q) == [q |-> q, kind |-> "cleared"]
CpuAbove == FracGT(avg_cpu(last.cpu_usage), CPU_ENTER)
CpuBelow == FracLT(avg_cpu(last.cpu_usage), CPU_CLEAR)
MemAbove == last.mem_percent > MEM_ENTER
MemBelow == last.mem_percent < MEM_CLEAR
EventsOf(q) == {e \in last.notified : e.q = q}

\* C8: a tick on which a quantity is Normal and above its enter threshold
\* makes it Alerted and emits exactly one AlertRaised for it.
C8_RaisedAboveEnter ==
    /\ (Ticked /\ ~last.pre_cpu_notified /\ CpuAbove) =>
           last.post_cpu_notified /\ EventsOf("cpu") = {Raised("cpu")}
    /\ (Ticked /\ ~last.pre_memory_notified /\ MemAbove) =>
           last.post_memory_notified /\ EventsOf("memory") = {Raised("memory")}

\* C9: a tick on which a quantity is Alerted and below its clear threshold
\* makes it Normal and emits an AlertCleared for it to the notification sink.
C9_ClearedBelowClear ==
    /\ (Ticked /\ last.pre_cpu_notified /\ CpuBelow) =>
           ~last.post_cpu_notified /\ Cleared("cpu") \in last.notified
    /\ (Ticked /\ last.pre_memory_notified /\ MemBelow) =>
           ~last.post_memory_notified /\ Cleared("memory") \in last.notified

\* C10: on every other tick (the value at a threshold or in the dead band
\* included) the alert state of the quantity is unchanged and nothing is
\* emitted for it.
C10_NoTransitionOtherwise ==
    /\ (/\ Ticked
        /\ ~(~last.pre_cpu_notified /\ CpuAbove)
        /\ ~(last.pre_cpu_notified /\ CpuBelow)) =>
           /\ last.post_cpu_notified = last.pre_cpu_notified
           /\ cpu_notified = last.pre_cpu_notified
           /\ EventsOf("cpu") = {}
    /\ (/\ Ticked
        /\ ~(~last.pre_memory_notified /\ MemAbove)
        /\ ~(last.pre_memory_notified /\ MemBelow)) =>
           /\ last.post_memory_notified = last.pre_memory_notified
           /\ memory_notified = last.pre_memory_notified
           /\ EventsOf("memory") = {}

\* the thresholds were evaluated on a tick whose mean CPU was exactly the
\* enter threshold while Normal and whose memory was exactly the clear
\* threshold while Alerted
C10_Witness ==
    /\ Ticked
    /\ last.checked
    /\ ~last.pre_cpu_notified
    /\ avg_cpu(last.cpu_usage) = [num |-> CPU_ENTER, den |-> 1]
    /\ last.pre_memory_notified
    /\ last.mem_percent = MEM_CLEAR

(***************************************************************************)
(* Sequences of ticks: log[k] is the k-th tick since construction, with the *)
(* values it read and the notifications it delivered.                       *)
(***************************************************************************)
Quantities == {"cpu", "memory"}
ValueOf(q, e) == IF q = "cpu" THEN avg_cpu(e.cpu_usage)
                 ELSE [num |-> e.mem_percent, den |-> 1]
ClearOf(q) == IF q = "cpu" THEN CPU_CLEAR ELSE MEM_CLEAR
EnterOf(q) == IF q = "cpu" THEN CPU_ENTER ELSE MEM_ENTER
EventsAt(q, k) == {e \in log[k].notified : e.q = q}
CpuMeans == [k \in 1..Len(log) |-> avg_cpu(log[k].cpu_usage).num]

\* C11: between two AlertRaised for the same quantity there is a tick whose
\* value was below the clear threshold; AlertCleared is emitted only on a
\* tick below the clear threshold; and the mean CPU sequence
\* [95, 85, 75, 65] emits AlertRaised at the first value, nothing at 85 and
\* 75, and AlertCleared at the last value.
C11_Hysteresis ==
    /\ \A q \in Quantities :
          /\ \A i, j \in 1..Len(log) :
                 (i < j /\ Raised(q) \in log[i].notified
                        /\ Raised(q) \in log[j].notified) =>
                     \E k \in (i + 1)..(j - 1) :
                         FracLT(ValueOf(q, log[k]), ClearOf(q))
          /\ \A k \in 1..Len(log) :
                 Cleared(q) \in log[k].notified =>
                     FracLT(ValueOf(q, log[k]), ClearOf(q))
    /\ CpuMeans = <<95, 85, 75, 65>> =>
          /\ EventsAt("cpu", 1) = {Raised("cpu")}
          /\ EventsAt("cpu", 2) = {}
          /\ EventsAt("cpu", 3) = {}
          /\ EventsAt("cpu", 4) = {Cleared("cpu")}

(***************************************************************************)
(* The alert state against the notification sink and the settings.          *)
(***************************************************************************)
\* the transition function of one quantity: Alerted above the enter
\* threshold, Normal below the clear threshold, unchanged otherwise
Transition(alerted, above, below) ==
    IF ~alerted /\ above THEN TRUE
    ELSE IF alerted /\ below THEN FALSE
    ELSE alerted

\* C22: the alert state does not depend on the delivery of the notification:
\* on a tick whose threshold check ran, a quantity that was Normal above its
\* enter threshold is Alerted afterwards even when the sink raised, the
\* other quantity was evaluated too, and the tick completed (the previous
\* counters and timestamp are those of this tick).
C22_SinkFailureTolerated ==
    (Ticked /\ last.checked) =>
        /\ (~last.pre_cpu_notified /\ CpuAbove) => cpu_notified
        /\ (~last.pre_memory_notified /\ MemAbove) => memory_notified
        /\ cpu_notified = Transition(last.pre_cpu_notified, CpuAbove, CpuBelow)
        /\ memory_notified =
               Transition(last.pre_memory_notified, MemAbove, MemBelow)
        /\ last.failed_at = "none"
        /\ last.prev_updated
        /\ prev_net_io = last.net_io

\* the alert state of quantity q after the first k ticks, by the transition
\* function applied to the value of every tick from the Normal state
RECURSIVE Fold(_, _)
Fold(q, k) ==
    IF k = 0 THEN FALSE
    ELSE Transition(Fold(q, k - 1),
                    FracGT(ValueOf(q, log[k]), EnterOf(q)),
                    FracLT(ValueOf(q, log[k]), ClearOf(q)))

\* C23: the transition function is evaluated for every quantity on every
\* completed tick: the alert state is the fold of the transition function
\* over the values of all ticks since start, whether or not notifications
\* were enabled or available on those ticks.
C23_AlertStateIsFold ==
    (last.failed_at \in {"never", "none"} /\ Len(log) = nticks) =>
        /\ cpu_notified = Fold("cpu", Len(log))
        /\ memory_notified = Fold("memory", Len(log))

\* the alert flag of quantity q
Flag(q) == IF q = "cpu" THEN cpu_notified ELSE memory_notified
\* the latest tick is the first since start whose value of q exceeds the
\* enter threshold
FirstAbove(q) ==
    /\ log # <<>>
    /\ FracGT(ValueOf(q, log[Len(log)]), EnterOf(q))
    /\ \A k \in 1..(Len(log) - 1) : ~FracGT(ValueOf(q, log[k]), EnterOf(q))

\* C25: before the first tick neither the CPU nor the memory quantity is
\* Alerted, and the first tick whose value exceeds the enter threshold
\* raises an alert for the quantity and leaves it Alerted (stated when the
\* tick has ended and the next has not begun).
C25_InitiallyNormal ==
    /\ nticks = 0 => (~cpu_notified /\ ~memory_notified)
    /\ \A q \in Quantities :
           (AtBoundary /\ FirstAbove(q)) =>
               /\ Raised(q) \in log[Len(log)].notified
               /\ Flag(q)

(***************************************************************************)
(* Failures during a tick.                                                  *)
(***************************************************************************)
\* C16: a tick on which a provider call, a root.after call or the
\* notification sink raised does not end the sampling loop: while the stop
\* signal is not raised the loop is still running afterwards, in every
\* front-end.
C16_FailureKeepsLoop ==
    (Ticked /\ running /\ last.failed_at \in {"provider", "after", "notify"}) =>
        alive

\* C17: a tick of the GUI on which get_disk_info raised still pushes the
\* CPU and memory readings of that tick to their series and schedules the
\* CPU, memory and network consumers.
C17_ProviderFailureLocal ==
    (Ticked /\ frontend = "vitalviz" /\ last.failed_at = "provider") =>
        /\ last.pushed
        /\ memory_history # <<>>
        /\ memory_history[Len(memory_history)] = last.mem_percent
        /\ \A c \in Cores :
               /\ cpu_history[c] # <<>>
               /\ cpu_history[c][Len(cpu_history[c])] = last.cpu_usage[c]
        /\ Queued("update_ui_cpu", last.n)
        /\ Queued("update_ui_memory", last.n)
        /\ Queued("update_ui_network", last.n)

\* C18: a tick on which scheduling one consumer raised still schedules every
\* other consumer, and the failure does not reach the sampler: the loop is
\* alive and the tick goes on to its threshold check and to the update of the
\* previous sample.
C18_DispatcherIsolation ==
    (Ticked /\ last.failed_at = "after") =>
        /\ \A k \in 1..AllScheduled :
               k # last.dispatched + 1 => Queued(Callbacks[k], last.n)
        /\ alive
        /\ last.prev_updated
        /\ (NOTIFICATIONS_AVAILABLE /\ enable_notifications
               /\ frontend = "vitalviz") => last.checked

(***************************************************************************)
(* The update interval.                                                     *)
(***************************************************************************)
\* C20: the interval in effect is always >= 0.1 s (update_interval is a
\* whole number of seconds, so ten times it is >= 1), whatever was saved in
\* the settings dialog, and the sampling loop keeps running.
C20_IntervalAtLeastMinimum ==
    /\ 10 * update_interval >= 1
    /\ running => alive

(***************************************************************************)
(* Reset and the two threads.                                               *)
(***************************************************************************)
\* every series holds exactly n points
AllLen(n) ==
    /\ Len(time_points) = n
    /\ \A c \in Cores : Len(cpu_history[c]) = n
    /\ Len(memory_history) = n
    /\ Len(network_sent_history) = n
    /\ Len(network_recv_history) = n

\* C12: when reset_graphs completes every series (time points, every
\* per-core CPU history, memory, network sent, network received) has length
\* 0, and the tick that completes next leaves every series with length
\* exactly 1.
C12_ResetThenTick ==
    [][/\ (rpc # 0 /\ rpc' = 0) => AllLen(0)'
       /\ (rpc = 0 /\ log = <<>> /\ log' # <<>> /\ last'.failed_at = "none") =>
              AllLen(1)']_vars

\* every series holds exactly the point of the iteration just executed
OnlyThisTick ==
    /\ time_points = <<HMS(loc.now)>>
    /\ \A c \in Cores : cpu_history[c] = <<loc.cpu_usage[c]>>
    /\ memory_history = <<loc.mem_percent>>
    /\ network_sent_history = <<loc.sent_rate>>
    /\ network_recv_history = <<loc.recv_rate>>

\* C13: when reset_graphs ran from its first to its last statement while one
\* iteration of update_data was in progress, the iteration did not fail and
\* the series are those of one of the two serial orders: all empty (tick, then
\* reset) or all holding exactly the point of this iteration (reset, then
\* tick).
C13_ResetAtomic ==
    (pc = "sleep" /\ rpc = 0 /\ overlap = Len(ResetStmts)) =>
        /\ last.failed_at = "none"
        /\ AllLen(0) \/ OnlyThisTick

\* the columns of a row of the CSV file are those of one tick: every
\* iteration of these specifications reads the same percentage for every
\* core and for the memory
OneTick(row) == row.avg_cpu = row.memory

\* C14: a callback or an export never reads the series while a push is in
\* progress: every plot call is given a list of the length of its x axis,
\* the lists one handler plots (the sent and received histories in
\* particular) are of the same length, no plot call fails, the rows a
\* CSV export writes are read outside a push, each from one tick, and the
\* export does not fail.
C14_ReaderSeesTickBoundary ==
    /\ ~cb.dirty
    /\ ~cb.raised
    /\ \A k \in 1..Len(cb.lines) :
           /\ cb.lines[k].x = Len(cb.lines[k].y)
           /\ Len(cb.lines[k].y) = Len(cb.lines[1].y)
    /\ \A k \in 1..Len(exp.rows) : ~exp.rows[k].dirty /\ OneTick(exp.rows[k])
    /\ ~exp.failed

\* C15: once on_closing has set running to False no new iteration starts
\* (at most the one in progress completes), and the update thread sees the
\* signal and leaves its loop.
C15_StopTerminates ==
    /\ [][~running => nticks' = nticks]_vars
    /\ ~running ~> pc = "done"

\* the part of C15 about new iterations
C15_NoNewIteration == [][~running => nticks' = nticks]_vars

\* the iteration whose point ends the list a plot call was given; the
\* received rates are the same on every iteration
LastOf(h) == h[Len(h)]
TickOf(line) ==
    IF line.list = "sent" THEN LastOf(line.y).num ELSE LastOf(line.y)

\* C19: the callbacks are scheduled in the order of the ticks, each at most
\* once per tick, and the history list a callback plots when it handles tick
\* n ends with the point of tick n, not with the point of a later tick.
C19_ConsumerSeesItsTick ==
    /\ \A i, j \in 1..Len(after_queue) :
           i < j => /\ after_queue[i].n <= after_queue[j].n
                    /\ after_queue[i] # after_queue[j]
    /\ cb.via = "after" =>
           \A k \in 1..Len(cb.lines) :
               (cb.lines[k].list # "recv" /\ cb.lines[k].y # <<>>) =>
                   TickOf(cb.lines[k]) = cb.n

(***************************************************************************)
(* Consecutive ticks.                                                       *)
(***************************************************************************)
\* the clock and the bytes_sent counter read by each tick since construction
TickTimes == [k \in 1..Len(log) |-> log[k].time]
ReadSent == [k \in 1..Len(log) |-> log[k].net_io.bytes_sent]

\* C21: each tick's rate is computed against the counters and the timestamp
\* of the tick before it: with ticks at t = 0, 1, 2 reading bytes_sent 1000,
\* 3000, 500, the second tick reports 2000 bytes per second and the third
\* (the counter went down) reports 0; no tick reports a negative rate and no
\* tick fails.
C21_EndToEnd ==
    (Ticked /\ TickTimes = <<0, 1, 2>> /\ ReadSent = <<1000, 3000, 500>>) =>
        /\ log[2].net_pushed
        /\ log[2].sent_rate = [num |-> 2000, den |-> 1]
        /\ \A r \in ReportedBy(2) : r.sent = [num |-> 2000, den |-> 1]
        /\ log[3].net_pushed
        /\ log[3].sent_rate = Zero
        /\ last.sent_rate = Zero
        /\ \A r \in ReportedBy(3) : r.sent = Zero
        /\ \A k \in 1..3 : log[k].sent_rate.num >= 0
        /\ last.failed_at = "none"
        /\ alive

(***************************************************************************)
(* The readers.                                                             *)
(***************************************************************************)
\* C24: every consumer operation (update_ui_cpu, update_ui_memory,
\* update_ui_network, update_dashboard, export_to_csv, export_to_json,
\* toggle_theme) leaves every series, the alert state and the previous
\* counters and timestamp unchanged.  A step of a consumer is a step that
\* changes the callback or the export in progress or the rate labels.
C24_ConsumersOnlyRead ==
    [][(cb' # cb \/ exp' # exp \/ js' # js \/ rate_labels' # rate_labels) =>
          /\ UNCHANGED series
          /\ UNCHANGED alerts
          /\ UNCHANGED <<prev_net_io, prev_time>>]_vars

\* the theme was switched and every chart redrawn from series that were
\* full, with both alerts raised and a sample stored
C24_Witness ==
    /\ cb.via = "toggle_theme"
    /\ cb.pc = "idle"
    /\ cb.callback = "update_dashboard"
    /\ Len(cb.lines) = NumCores + 4
    /\ \A k \in 1..Len(cb.lines) : Len(cb.lines[k].y) = MAX_HISTORY
    /\ cpu_notified
    /\ memory_notified
    /\ prev_net_io.bytes_sent > 0
    /\ prev_time > 0

(***************************************************************************)
(* Alignment of the series.                                                 *)
(***************************************************************************)
\* C26: between ticks, after any sequence of completed ticks, failed ticks
\* and resets, the time points, the memory history, the two network
\* histories and the history of every core have the same length, so that
\* index i is the same tick in every series.
C26_SeriesAligned ==
    AtBoundary =>
        /\ Len(time_points) = Len(memory_history)
        /\ Len(memory_history) = Len(network_sent_history)
        /\ Len(network_sent_history) = Len(network_recv_history)
        /\ \A i \in Cores : Len(cpu_history[i]) = Len(time_points)

\* C27: under every interleaving with reset_graphs the sent and received
\* histories have the same length when the eviction guard of line 606 tests
\* the sent history, the pop of line 608 never finds the received history
\* empty, and the received history never holds more than the capacity.
C27_NetGuardSound ==
    /\ pc = "net_len" => Len(network_sent_history) = Len(network_recv_history)
    /\ pc = "net_pop_recv" => network_recv_history # <<>>
    /\ Len(network_recv_history) <= MAX_HISTORY

(***************************************************************************)
(* The previous sample.                                                     *)
(***************************************************************************)
\* this step ends an iteration
Ends ==
    /\ last'.failed_at \notin {"never", "running"}
    /\ last.failed_at = "running" \/ last'.n # last.n

\* C28: the previous counters and the previous timestamp belong to the same
\* sample.  A tick that completes stores both its counters and its clock
\* reading; a tick that fails stores neither; no other step changes them;
\* and the rate of a tick that completes is its counter delta over its
\* elapsed time, both measured from the stored pair.
C28_PrevSampleTogether ==
    [][/\ ~Ends => UNCHANGED <<prev_net_io, prev_time>>
       /\ Ends =>
              /\ last'.prev_updated = (last'.failed_at = "none")
              /\ last'.prev_updated =>
                     /\ prev_net_io' = last'.net_io
                     /\ prev_time' = last'.current_time
              /\ ~last'.prev_updated => UNCHANGED <<prev_net_io, prev_time>>
              /\ last'.failed_at = "none" =>
                     /\ IsQuotient(last'.sent_rate,
                                   last'.net_io.bytes_sent - prev_net_io.bytes_sent,
                                   last'.current_time - prev_time)
                     /\ IsQuotient(last'.recv_rate,
                                   last'.net_io.bytes_recv - prev_net_io.bytes_recv,
                                   last'.current_time - prev_time)]_vars

\* a tick failed after a tick that had stored new counters and a new
\* timestamp, and left both as they were
C28_Witness ==
    /\ last.n = 2
    /\ last.failed_at \in {"provider", "division", "after", "notify"}
    /\ last.net_io # prev_net_io
    /\ last.time_diff # 0
    /\ prev_net_io.bytes_sent = 1
    /\ prev_time = 1

(***************************************************************************)
(* What a reset leaves alone.                                               *)
(***************************************************************************)
\* C29: a statement of reset_graphs (the only step that changes the
\* series and is not a statement of update_data) leaves the alert state of
\* every quantity, the previous counters and timestamp, the update interval,
\* the history capacity and the notifications setting unchanged; and a
\* threshold check on which a quantity is already Alerted, the first check
\* after a reset included, raises no second alert for it.
C29_ResetOnlySeries ==
    [][/\ (series' # series /\ pc' = pc) =>
              /\ UNCHANGED alerts
              /\ UNCHANGED <<prev_net_io, prev_time>>
              /\ UNCHANGED settings
       /\ \A q \in Quantities :
              (Flag(q) /\ ~last.checked /\ last'.checked) =>
                  Raised(q) \notin last'.notified]_vars

\* the series were reset while the CPU was Alerted, with an interval other
\* than the default, and the tick after the reset, again above the enter
\* threshold, was checked and raised nothing
C29_Witness ==
    /\ last.n > 1
    /\ Ticked
    /\ Len(log) = 1
    /\ AllLen(1)
    /\ last.pre_cpu_notified
    /\ last.checked
    /\ CpuAbove
    /\ last.notified = {}
    /\ cpu_notified
    /\ update_interval # DEFAULT_UPDATE_INTERVAL
    /\ prev_time > 1

(***************************************************************************)
(* Closing the window.                                                      *)
(***************************************************************************)
\* C30: once on_closing has set running to False and destroyed the root,
\* whatever statement the iteration in progress was at, the update thread
\* makes no root.after call (none fails on the destroyed root) and does not
\* end with the exception of such a call.
C30_NoDispatchAfterDestroy ==
    destroyed => (last.failed_at # "after" /\ alive)

====
